---- MODULE Spec2Model ----
(***************************************************************************)
(* Model of librustc/middle/subst.rs: the substitution table `Substs`, the *)
(* `Subst` capability and the `SubstFolder` type folder.                   *)
(*                                                                         *)
(* One behaviour fixes a table (`substs`), an optional span and an entity, *)
(* then performs substitution calls with that table: first on the entity   *)
(* itself, then on each of its direct children.  A call is executed in     *)
(* small steps (entry to fold_ty, the match, the children of               *)
(* super_fold_ty, exit from fold_ty) so that the folder's fields           *)
(* `root_ty` and `ty_stack_depth` can be observed at every entry and exit. *)
(***************************************************************************)
EXTENDS Integers, Sequences, FiniteSets, TLC

\* ---------------------------------------------------------------- bounds
\* Type-parameter indices range over 0..MaxTps and the table's `tps` has
\* length 0..MaxTps, so a reference may be in or out of bounds.
MaxTps == 2
\* Early-bound region indices range over 0..MaxRegions; a NonerasedRegions
\* list has length 0..MaxRegions.
MaxRegions == 1
\* Nesting depth of the entities that are substituted.
MaxNest == 2

\* ------------------------------------------------- types and regions (ty)
\* A node of the type representation: `k` is the variant, `idx` the index a
\* parameter reference carries, `kids` the children of a compound type.
Mk(k, idx, kids) == [k |-> k, idx |-> idx, kids |-> kids]

\* Option::None (for Option<ty::t> and Option<Span>).
NoneV == Mk("None", 0, <<>>)

ReEarlyBound(i) == Mk("ReEarlyBound", i, <<>>)
ReLateBound == Mk("ReLateBound", 0, <<>>)
ReStatic == Mk("ReStatic", 0, <<>>)
ReFree(i) == Mk("ReFree", i, <<>>)

ty_int == Mk("ty_int", 0, <<>>)
ty_str == Mk("ty_str", 0, <<>>)
ty_param(i) == Mk("ty_param", i, <<>>)
ty_self == Mk("ty_self", 0, <<>>)
ty_struct(i) == Mk("ty_struct", i, <<>>)
ty_rptr(r, t) == Mk("ty_rptr", 0, <<r, t>>)
ty_tup(a, b) == Mk("ty_tup", 0, <<a, b>>)

\* ty::mk_err(): the error placeholder type.
mk_err == Mk("ty_err", 0, <<>>)

IsRegion(x) == x.k \in {"ReEarlyBound", "ReLateBound", "ReStatic", "ReFree"}

\* ----------------------------------------------------------- RegionSubsts
ErasedRegions == [tag |-> "ErasedRegions", rs |-> <<>>]
NonerasedRegions(v) == [tag |-> "NonerasedRegions", rs |-> v]

\* ----------------------------------------------------------------- Substs
Substs(self_ty, tps, regions) ==
  [self_ty |-> self_ty, tps |-> tps, regions |-> regions]

empty == Substs(NoneV, <<>>, NonerasedRegions(<<>>))

trans_empty == Substs(NoneV, <<>>, ErasedRegions)

\* Variant: an erased region list counts as doing nothing.
is_noop_ErasedIsNoop(s) ==
  LET regions_is_noop ==
        IF s.regions.tag = "ErasedRegions" THEN TRUE
        ELSE Len(s.regions.rs) = 0
  IN  Len(s.tps) = 0 /\ regions_is_noop /\ s.self_ty = NoneV

is_noop(s) ==
  LET regions_is_noop ==
        IF s.regions.tag = "ErasedRegions" THEN FALSE
        ELSE Len(s.regions.rs) = 0
  IN  Len(s.tps) = 0 /\ regions_is_noop /\ s.self_ty = NoneV

\* ------------------------------------------------------------ input sets
\* The span of subst_spanned: None (plain `subst`) or Some(span).
SomeSpan == Mk("Span", 0, <<>>)

Leaves == {ty_int, ty_self} \cup {ty_param(i) : i \in 0..MaxTps}

Regions == {ReLateBound} \cup {ReEarlyBound(i) : i \in 0..MaxRegions}

\* Compound types over leaves: every pair, and every reference type.
Level1 ==
  {ty_tup(a, b) : a \in Leaves, b \in Leaves}
    \cup {ty_rptr(r, t) : r \in Regions, t \in Leaves}

\* One more level of nesting around x.
Wrap(x) == {ty_tup(x, ty_int), ty_tup(ty_self, x), ty_rptr(ReEarlyBound(0), x)}

RECURSIVE TyNew(_)
TyNew(n) == IF n = 1 THEN Level1 ELSE UNION {Wrap(x) : x \in TyNew(n - 1)}

Entities == Leaves \cup UNION {TyNew(n) : n \in 1..MaxNest}

TpsOf(n) == [j \in 1..n |-> ty_struct(j - 1)]

RegionsOf(n) == [j \in 1..n |-> ReFree(j - 1)]

Tables ==
  {Substs(s, TpsOf(n), r) :
     s \in {NoneV, ty_str},
     n \in 0..MaxTps,
     r \in {ErasedRegions} \cup {NonerasedRegions(RegionsOf(m)) : m \in 0..MaxRegions}}

\* ----------------------------------------------------------------- state
VARIABLES
  substs,          \* SubstFolder.substs: the table of this instantiation
  span,            \* SubstFolder.span
  root_ty,         \* SubstFolder.root_ty
  ty_stack_depth,  \* SubstFolder.ty_stack_depth
  entity,          \* the entity the caller substitutes
  flag_regions,    \* which regions set the cached needs-subst flag of a type
  results,         \* results of the calls completed so far, in call order
  mode,            \* position of the call in progress
  arg,             \* argument of the fold_* call entered / value it returned
  stack,           \* activation records of the fold_ty calls in progress
  diags,           \* diagnostics the call in progress gave to tcx.sess
  lookups,         \* fields of the table the call in progress has read
  noop             \* what is_noop() told the caller about the table

vars ==
  <<substs, span, root_ty, ty_stack_depth, entity, flag_regions, results,
    mode, arg, stack, diags, lookups, noop>>

folder == <<root_ty, ty_stack_depth>>
fixed == <<substs, span, entity, flag_regions>>
caller == <<results, noop>>

\* ty::type_needs_subst: the cached flag of a type says whether a type
\* parameter, Self or a region parameter occurs anywhere within it.  The
\* flags are computed in middle::ty; whether a region that is not
\* early-bound sets the flag too is left open (flag_regions): a behaviour
\* runs with either reading.
RECURSIVE HasFlag(_, _)
HasFlag(x, f) ==
  IF IsRegion(x) THEN f = "any" \/ x.k = "ReEarlyBound"
  ELSE \/ x.k \in {"ty_param", "ty_self"}
       \/ \E j \in 1..Len(x.kids) : HasFlag(x.kids[j], f)

type_needs_subst(t) == HasFlag(t, flag_regions)

\* The calls a behaviour makes: the entity, then each of its children.
Targets(e) == <<e>> \o e.kids

Top == stack[Len(stack)]

SetTop(f) == [stack EXCEPT ![Len(stack)] = f]

Init ==
  /\ substs \in Tables
  /\ span \in {NoneV, SomeSpan}
  /\ entity \in Entities
  /\ flag_regions \in {"early", "any"}
  /\ root_ty = NoneV
  /\ ty_stack_depth = 0
  /\ results = <<>>
  /\ mode = "idle"
  /\ arg = NoneV
  /\ stack = <<>>
  /\ diags = <<>>
  /\ lookups = {}
  /\ noop = "unasked"

\* The caller asks the table whether it is a no-op before it uses it.
ask_is_noop ==
  /\ noop = "unasked"
  /\ noop' = IF is_noop(substs) THEN "yes" ELSE "no"
  /\ UNCHANGED <<fixed, folder, results, mode, arg, stack, diags, lookups>>

\* subst / subst_spanned: a fresh folder, then fold_with on the entity.
subst_spanned ==
  /\ mode = "idle"
  /\ noop # "unasked"
  /\ Len(results) < Len(Targets(entity))
  /\ root_ty' = NoneV
  /\ ty_stack_depth' = 0
  /\ stack' = <<>>
  /\ diags' = <<>>
  /\ lookups' = {}
  /\ arg' = Targets(entity)[Len(results) + 1]
  /\ mode' = "call"
  /\ UNCHANGED <<fixed, caller>>

\* Variant: the catch-all arm gives ReStatic instead of r.
RegionValue_OtherToStatic(s, r) ==
  IF r.k = "ReEarlyBound"
  THEN IF s.regions.tag = "ErasedRegions" THEN ReStatic
       ELSE IF r.idx < Len(s.regions.rs) THEN s.regions.rs[r.idx + 1]
       ELSE NoneV
  ELSE ReStatic

\* Variant: under ErasedRegions the region is left as it is.
RegionValue_NoErasure(s, r) ==
  IF r.k = "ReEarlyBound"
  THEN IF s.regions.tag = "ErasedRegions" THEN r
       ELSE IF r.idx < Len(s.regions.rs) THEN s.regions.rs[r.idx + 1]
       ELSE NoneV
  ELSE r

\* The value fold_region gives for r, or NoneV where the indexing fails.
RegionValue(s, r) ==
  IF r.k = "ReEarlyBound"
  THEN IF s.regions.tag = "ErasedRegions" THEN ReStatic
       ELSE IF r.idx < Len(s.regions.rs) THEN s.regions.rs[r.idx + 1]
       ELSE NoneV
  ELSE r

\* Variant: the region list is read before r is matched.
RegionReads_BeforeMatch(s, r) ==
  IF r.k = "ReEarlyBound" /\ s.regions.tag # "ErasedRegions"
  THEN {"regions", "regions.get"}
  ELSE {"regions"}

\* The fields of the table fold_region reads for r.
RegionReads(s, r) ==
  IF r.k = "ReEarlyBound"
  THEN IF s.regions.tag = "ErasedRegions" THEN {"regions"}
       ELSE {"regions", "regions.get"}
  ELSE {}

fold_region ==
  /\ mode = "call"
  /\ IsRegion(arg)
  /\ lookups' = lookups \cup RegionReads(substs, arg)
  /\ IF RegionValue(substs, arg) = NoneV
     THEN mode' = "failed" /\ arg' = arg
     ELSE mode' = "ret" /\ arg' = RegionValue(substs, arg)
  /\ UNCHANGED <<fixed, folder, caller, stack, diags>>

\* fold_ty, the fast path: the type is returned as it is.
fold_ty_fast ==
  /\ mode = "call"
  /\ ~IsRegion(arg)
  /\ ~type_needs_subst(arg)
  /\ mode' = "ret"
  /\ UNCHANGED <<fixed, folder, caller, arg, stack, diags, lookups>>

\* Variant: the depth is incremented only where the root is recorded.
fold_ty_enter_IncrementAtRoot ==
  /\ mode = "call"
  /\ ~IsRegion(arg)
  /\ type_needs_subst(arg)
  /\ LET depth == ty_stack_depth
     IN  /\ root_ty' = IF depth = 0 THEN arg ELSE root_ty
         /\ ty_stack_depth' = IF depth = 0 THEN ty_stack_depth + 1
                              ELSE ty_stack_depth
         /\ stack' = Append(stack, [t |-> arg, depth |-> depth,
                                    kids |-> <<>>, t1 |-> NoneV])
  /\ mode' = "match"
  /\ UNCHANGED <<fixed, caller, arg, diags, lookups>>

\* fold_ty past the fast path: record the root at depth 0, push.
fold_ty_enter ==
  /\ mode = "call"
  /\ ~IsRegion(arg)
  /\ type_needs_subst(arg)
  /\ LET depth == ty_stack_depth
     IN  /\ root_ty' = IF depth = 0 THEN arg ELSE root_ty
         /\ ty_stack_depth' = ty_stack_depth + 1
         /\ stack' = Append(stack, [t |-> arg, depth |-> depth,
                                    kids |-> <<>>, t1 |-> NoneV])
  /\ mode' = "match"
  /\ UNCHANGED <<fixed, caller, arg, diags, lookups>>

\* The message both error arms build and the sink they give it to.
Diag(text) ==
  [sink |-> IF span # NoneV THEN "span_err" ELSE "err",
   text |-> text,
   root_msg |-> root_ty]

\* Variant: an out-of-range reference is left in place.
ParamValue_KeepsRef(s, p) == IF p.idx < Len(s.tps) THEN s.tps[p.idx + 1] ELSE p

\* Variant: an out-of-range reference gives the recorded root.
ParamValue_GivesRoot(s, p) ==
  IF p.idx < Len(s.tps) THEN s.tps[p.idx + 1] ELSE root_ty

\* The ty_param arm.
ParamValue(s, p) == IF p.idx < Len(s.tps) THEN s.tps[p.idx + 1] ELSE mk_err

ParamDiags(s, p) ==
  IF p.idx < Len(s.tps) THEN <<>> ELSE <<Diag("outer type parameter")>>

fold_ty_param ==
  /\ mode = "match"
  /\ Top.t.k = "ty_param"
  /\ stack' = SetTop([Top EXCEPT !.t1 = ParamValue(substs, Top.t)])
  /\ diags' = diags \o ParamDiags(substs, Top.t)
  /\ lookups' = lookups \cup {"tps"}
  /\ mode' = "exit"
  /\ UNCHANGED <<fixed, folder, caller, arg>>

\* Variant: a Self without a self type is left in place.
SelfValue_KeepsSelf(s) == IF s.self_ty # NoneV THEN s.self_ty ELSE ty_self

\* The ty_self arm.
SelfValue(s) == IF s.self_ty # NoneV THEN s.self_ty ELSE mk_err

SelfDiags(s) ==
  IF s.self_ty # NoneV THEN <<>> ELSE <<Diag("missing Self type param")>>

fold_ty_self ==
  /\ mode = "match"
  /\ Top.t.k = "ty_self"
  /\ stack' = SetTop([Top EXCEPT !.t1 = SelfValue(substs)])
  /\ diags' = diags \o SelfDiags(substs)
  /\ lookups' = lookups \cup {"self_ty"}
  /\ mode' = "exit"
  /\ UNCHANGED <<fixed, folder, caller, arg>>

\* ty_fold::super_fold_ty: fold the next child ...
super_fold_ty_child ==
  /\ mode = "match"
  /\ Top.t.k \notin {"ty_param", "ty_self"}
  /\ Len(Top.kids) < Len(Top.t.kids)
  /\ arg' = Top.t.kids[Len(Top.kids) + 1]
  /\ mode' = "call"
  /\ UNCHANGED <<fixed, folder, caller, stack, diags, lookups>>

\* ... and rebuild the type from the folded children.
Rebuild(t, kids) == Mk(t.k, t.idx, kids)

super_fold_ty_rebuild ==
  /\ mode = "match"
  /\ Top.t.k \notin {"ty_param", "ty_self"}
  /\ Len(Top.kids) = Len(Top.t.kids)
  /\ stack' = SetTop([Top EXCEPT !.t1 = Rebuild(Top.t, Top.kids)])
  /\ mode' = "exit"
  /\ UNCHANGED <<fixed, folder, caller, arg, diags, lookups>>

\* Variant: the root is cleared at every exit, not only at depth 0.
fold_ty_exit_ClearsRootAlways ==
  /\ mode = "exit"
  /\ IF Top.depth + 1 # ty_stack_depth
     THEN mode' = "failed" /\ UNCHANGED <<folder, arg, stack>>
     ELSE /\ ty_stack_depth' = ty_stack_depth - 1
          /\ root_ty' = NoneV
          /\ arg' = Top.t1
          /\ stack' = SubSeq(stack, 1, Len(stack) - 1)
          /\ mode' = "ret"
  /\ UNCHANGED <<fixed, caller, diags, lookups>>

\* The end of fold_ty: the assertion, the pop, the root cleared at depth 0.
fold_ty_exit ==
  /\ mode = "exit"
  /\ IF Top.depth + 1 # ty_stack_depth
     THEN mode' = "failed" /\ UNCHANGED <<folder, arg, stack>>
     ELSE /\ ty_stack_depth' = ty_stack_depth - 1
          /\ root_ty' = IF Top.depth = 0 THEN NoneV ELSE root_ty
          /\ arg' = Top.t1
          /\ stack' = SubSeq(stack, 1, Len(stack) - 1)
          /\ mode' = "ret"
  /\ UNCHANGED <<fixed, caller, diags, lookups>>

\* A fold_* call returns into super_fold_ty ...
return_to_super_fold ==
  /\ mode = "ret"
  /\ stack # <<>>
  /\ stack' = SetTop([Top EXCEPT !.kids = Append(Top.kids, arg)])
  /\ mode' = "match"
  /\ UNCHANGED <<fixed, folder, caller, arg, diags, lookups>>

\* ... or fold_with returns the result of subst_spanned to the caller.
return_to_caller ==
  /\ mode = "ret"
  /\ stack = <<>>
  /\ results' = Append(results, arg)
  /\ mode' = "idle"
  /\ UNCHANGED <<fixed, folder, arg, stack, diags, lookups, noop>>

Next ==
  \/ ask_is_noop
  \/ subst_spanned
  \/ fold_region
  \/ fold_ty_fast
  \/ fold_ty_enter
  \/ fold_ty_param
  \/ fold_ty_self
  \/ super_fold_ty_child
  \/ super_fold_ty_rebuild
  \/ fold_ty_exit
  \/ return_to_super_fold
  \/ return_to_caller

Spec == Init /\ [][Next]_vars

\* ------------------------------------------------------------ properties
\* Whether a type-parameter, Self or early-bound region reference occurs in x.
RECURSIVE ContainsRef(_)
ContainsRef(x) ==
  \/ x.k \in {"ty_param", "ty_self", "ReEarlyBound"}
  \/ \E j \in 1..Len(x.kids) : ContainsRef(x.kids[j])

\* A substitution call has returned to the caller (and no other has begun).
Done == mode = "idle" /\ results # <<>>

\* The entity and the result of the call that returned last.
LastTarget == Targets(entity)[Len(results)]
LastResult == results[Len(results)]

\* A call is in progress, has failed, or has just returned.
InCall == mode # "idle" \/ results # <<>>

\* The entity of that call.
CallTarget == IF mode = "idle" THEN LastTarget ELSE Targets(entity)[Len(results) + 1]

\* The frame fold_ty works in after the step.
TopNext == stack'[Len(stack')]

\* C1 (index correctness): folding a type-parameter reference with index i
\* gives the i-th entry of tps and no diagnostic when i < len(tps), and the
\* error placeholder with exactly one more diagnostic otherwise; a
\* substitution call on a lone reference returns just that.
IndexCorrect ==
  /\ [][(mode = "match" /\ Top.t.k = "ty_param") =>
          /\ mode' = "exit"
          /\ IF Top.t.idx < Len(substs.tps)
             THEN TopNext.t1 = substs.tps[Top.t.idx + 1] /\ diags' = diags
             ELSE TopNext.t1 = mk_err /\ Len(diags') = Len(diags) + 1]_vars
  /\ [](Done /\ LastTarget.k = "ty_param" =>
          IF LastTarget.idx < Len(substs.tps)
          THEN LastResult = substs.tps[LastTarget.idx + 1] /\ diags = <<>>
          ELSE LastResult = mk_err /\ Len(diags) = 1)

\* With tps = [A, B], index 2 has given the placeholder and one diagnostic,
\* and index 1 has then given B.
IndexCorrectWitness ==
  /\ mode = "exit"
  /\ Top.t = ty_param(1)
  /\ Top.t1 = ty_struct(1)
  /\ Len(substs.tps) = 2
  /\ Len(diags) = 1
  /\ diags[1].text = "outer type parameter"

\* C2 (no crash on index misuse): no substitution call ever aborts.
NeverAborts == mode # "failed"

\* C3 as stated (identity): a call with a no-op table returns its entity.
IdentityAnyEntity == (Done /\ noop = "yes") => LastResult = LastTarget

\* C3 amended: with a no-op table, a call on an entity that holds no
\* type-parameter, Self or early-bound region reference does not abort and
\* returns a value equal to the entity.
IdentityNoRefs ==
  (InCall /\ noop = "yes" /\ ~ContainsRef(CallTarget)) =>
     /\ mode # "failed"
     /\ Done => LastResult = LastTarget

IdentityNoRefsWitness ==
  /\ Done
  /\ noop = "yes"
  /\ flag_regions = "any"
  /\ LastTarget = ty_tup(ty_rptr(ReLateBound, ty_int), ty_int)
  /\ LastResult = LastTarget

\* C4 (depth invariant): ty_stack_depth counts the fold_ty calls in
\* progress, so each call returns with the depth it was entered with; the
\* assertion before the decrement holds whenever it is reached; and the
\* depth is 0 again when the substitution call has returned.
DepthInvariant ==
  /\ ty_stack_depth = Len(stack)
  /\ \A j \in 1..Len(stack) : stack[j].depth = j - 1
  /\ mode = "exit" => Top.depth + 1 = ty_stack_depth
  /\ mode = "idle" => ty_stack_depth = 0

\* A call on a nested entity has returned after an error path was taken.
DepthInvariantWitness ==
  /\ Done
  /\ Len(results) = 1
  /\ \E j \in 1..Len(entity.kids) : entity.kids[j].kids # <<>>
  /\ diags # <<>>
  /\ ty_stack_depth = 0

\* C5 (Self resolution): folding a Self reference gives self_ty and no
\* diagnostic when self_ty is Some, and the error placeholder with exactly
\* one more diagnostic when it is None; either way fold_ty goes on to its
\* exit, and a substitution call on a lone Self returns just that.
SelfResolution ==
  /\ [][(mode = "match" /\ Top.t.k = "ty_self") =>
          /\ mode' = "exit"
          /\ IF substs.self_ty # NoneV
             THEN TopNext.t1 = substs.self_ty /\ diags' = diags
             ELSE /\ TopNext.t1 = mk_err
                  /\ diags' = Append(diags, diags'[Len(diags')])
                  /\ diags'[Len(diags')].text = "missing Self type param"]_vars
  /\ [](Done /\ LastTarget = ty_self =>
          IF substs.self_ty # NoneV
          THEN LastResult = substs.self_ty /\ diags = <<>>
          ELSE LastResult = mk_err /\ Len(diags) = 1)

SelfResolutionWitness ==
  /\ Done
  /\ LastTarget = ty_self
  /\ substs.self_ty = NoneV
  /\ LastResult = mk_err
  /\ Len(diags) = 1
  /\ diags[1].text = "missing Self type param"

\* C6 (region erasure): under ErasedRegions fold_region turns an early-bound
\* region of any index into ReStatic without indexing a region list and
\* without failing; a region that is not early-bound is returned as it is.
RegionErasure ==
  [][(mode = "call" /\ IsRegion(arg)) =>
       /\ (arg.k = "ReEarlyBound" /\ substs.regions.tag = "ErasedRegions") =>
            /\ mode' = "ret"
            /\ arg' = ReStatic
            /\ "regions.get" \notin lookups'
       /\ arg.k # "ReEarlyBound" => (mode' = "ret" /\ arg' = arg)]_vars

\* An early-bound region whose index no list of the model covers was erased.
RegionErasureWitness ==
  /\ Done
  /\ substs.regions.tag = "ErasedRegions"
  /\ LastTarget = ReEarlyBound(MaxRegions)
  /\ LastResult = ReStatic
  /\ "regions.get" \notin lookups

\* C7 (fast-path short-circuit): a call on an entity that holds no
\* type-parameter, Self or early-bound region reference reads nothing of
\* the table, gives no diagnostic, does not abort and returns the entity.
NoRefsUntouched ==
  (InCall /\ ~ContainsRef(CallTarget)) =>
     /\ lookups = {}
     /\ diags = <<>>
     /\ mode # "failed"
     /\ Done => LastResult = LastTarget

NoRefsUntouchedWitness ==
  /\ Done
  /\ noop = "no"
  /\ Len(substs.tps) > 0
  /\ substs.self_ty # NoneV
  /\ LastTarget = ty_rptr(ReLateBound, ty_int)
  /\ LastResult = LastTarget
  /\ lookups = {}

\* C8 (compositional correctness): once the calls on a compound entity and
\* on each of its children have returned, the result for the entity is the
\* entity rebuilt from the results for the children; and when the call on
\* the entity has returned, no call on a child aborts.
Compositional ==
  /\ (entity.kids # <<>> /\ Len(results) = Len(Targets(entity))) =>
        results[1] = Mk(entity.k, entity.idx, Tail(results))
  /\ results # <<>> => mode # "failed"

CompositionalWitness ==
  /\ Len(results) = 3
  /\ entity = ty_tup(ty_rptr(ReEarlyBound(0), ty_param(0)), ty_int)
  /\ results[1] = ty_tup(ty_rptr(ReFree(0), ty_struct(0)), ty_int)
  /\ results[2] = ty_rptr(ReFree(0), ty_struct(0))

\* C9 (is_noop): is_noop() answers true exactly for the table with no type
\* parameters, no self type and an empty NonerasedRegions list; so it does
\* for empty(), and it does not for trans_empty() or any erased table.
NoopIff ==
  noop # "unasked" =>
    /\ noop = "yes" <=>
         /\ substs.tps = <<>>
         /\ substs.self_ty = NoneV
         /\ substs.regions = NonerasedRegions(<<>>)
    /\ substs = empty => noop = "yes"
    /\ substs = trans_empty => noop = "no"
    /\ substs.regions = ErasedRegions => noop = "no"

NoopIffWitness == noop = "no" /\ substs = trans_empty

\* C10 (root tracking): root_ty is Some exactly while ty_stack_depth > 0,
\* and is then the type the depth-0 fold_ty call was entered on; every
\* diagnostic carries that root; root_ty is None once the call returned.
RootTracking ==
  /\ (root_ty # NoneV) <=> (ty_stack_depth > 0)
  /\ root_ty # NoneV => root_ty = stack[1].t
  /\ \A j \in 1..Len(diags) :
        diags[j].root_msg # NoneV /\ diags[j].root_msg = CallTarget
  /\ Done => root_ty = NoneV

\* A diagnostic naming the root was given two levels below it.
RootTrackingWitness ==
  /\ mode = "exit"
  /\ Len(stack) = 3
  /\ Top.t1 = mk_err
  /\ diags # <<>>
  /\ diags[Len(diags)].root_msg = entity
  /\ root_ty = entity

====
